---- MODULE Spec2Model ----
(***************************************************************************)
(* Model of the proxmox_sdn_zone Ansible module                            *)
(* (plugins/modules/proxmox_sdn_zone.py) and of the shared helper          *)
(* apply_sdn_configuration (plugins/module_utils/sdn.py).                  *)
(*                                                                         *)
(* One invocation of main() is a walk of pc through the remote calls the   *)
(* module makes: fetch, create/update/delete, re-fetch, apply.  Every      *)
(* remote call is answered by the transport either normally or with an     *)
(* exception; fail_json and exit_json end the invocation.                  *)
(***************************************************************************)
EXTENDS Integers, Sequences, FiniteSets, TLC

VARIABLES
    params,          \* module.params
    check_mode,      \* module.check_mode
    server,          \* the zone as stored by the cluster: None or a dict
    pc,              \* position of the invocation in main()
    desired_payload, \* ensure_present: desired_payload
    existing_zone,   \* ensure_present / ensure_absent: existing_zone
    create_payload,  \* ensure_present: create_payload
    updates,         \* ensure_present: updates
    delete_kwargs,   \* ensure_absent: delete_kwargs
    ret,             \* (changed, zone_data, message) returned to main()
    applied,         \* main: applied
    result,          \* kwargs of module.exit_json
    fail_msg,        \* msg of module.fail_json
    calls,           \* the remote calls issued by this invocation, in order
    prev,            \* summary of the previous invocation of the same task
    runs             \* number of invocations started so far

vars == <<params, check_mode, server, pc, desired_payload, existing_zone,
          create_payload, updates, delete_kwargs, ret, applied, result,
          fail_msg, calls, prev, runs>>

(***************************************************************************)
(* Python values: None, int, str, bool; dicts are functions from field     *)
(* names to values.                                                        *)
(***************************************************************************)
None == [k |-> "none", n |-> 0, s |-> ""]
PyInt(i) == [k |-> "int", n |-> i, s |-> ""]
PyStr(t) == [k |-> "str", n |-> 0, s |-> t]
PyBool(b) == [k |-> "bool", n |-> IF b THEN 1 ELSE 0, s |-> ""]

EmptyDict == [f \in {} |-> None]

Digits == <<"0", "1", "2", "3", "4", "5", "6", "7", "8", "9">>

RECURSIVE Dec(_)
Dec(i) == IF i < 10 THEN Digits[i + 1]
          ELSE Dec(i \div 10) \o Digits[(i % 10) + 1]

\* Python str(v)
Str(v) ==
    CASE v.k = "none" -> "None"
      [] v.k = "int"  -> Dec(v.n)
      [] v.k = "bool" -> IF v.n = 1 THEN "True" ELSE "False"
      [] OTHER        -> v.s

\* Python truth value of a scalar
Truthy(v) ==
    CASE v.k = "none" -> FALSE
      [] v.k = "int"  -> v.n # 0
      [] v.k = "bool" -> v.n = 1
      [] OTHER        -> v.s # ""

\* Python truth value of a dict or None
TruthyDict(d) == IF d = None THEN FALSE ELSE DOMAIN d # {}

\* dict.get(f)
Get(d, f) == IF f \in DOMAIN d THEN d[f] ELSE None

\* dict.update(e) / keyword merge
Update(d, e) ==
    [f \in DOMAIN d \cup DOMAIN e |-> IF f \in DOMAIN e THEN e[f] ELSE d[f]]

\* needle in text
RECURSIVE ContainsFrom(_, _, _)
ContainsFrom(text, needle, i) ==
    IF i + Len(needle) - 1 > Len(text) THEN FALSE
    ELSE IF SubSeq(text, i, i + Len(needle) - 1) = needle THEN TRUE
    ELSE ContainsFrom(text, needle, i + 1)

Contains(text, needle) == ContainsFrom(text, needle, 1)

(***************************************************************************)
(* The option tables of ProxmoxSDNZoneModule, restricted to one option of  *)
(* each type (int, str, bool).                                             *)
(***************************************************************************)
Options == {"mtu", "controller", "advertise_subnets"}

ZONE_OPTION_MAP ==
    [mtu |-> "mtu",
     controller |-> "controller",
     advertise_subnets |-> "advertise-subnets"]

BOOLEAN_OPTIONS == {"advertise_subnets"}

ansible_to_proxmox_bool(v) == IF v.n = 1 THEN PyInt(1) ELSE PyInt(0)

ZoneName == "tenant01"
ZoneTypes == {"evpn", "vxlan"}
RequestedTypes == {"evpn"}

(***************************************************************************)
(* The transport (proxmoxer).  A call is answered by a return value or by  *)
(* a raised exception; str(exc) is exc.text.                               *)
(***************************************************************************)
NoExc == [cls |-> "", status_code |-> None, text |-> ""]
Returned(data) == [kind |-> "ok", data |-> data, exc |-> NoExc]
Raised(cls, status, text) ==
    [kind |-> "raise", data |-> None,
     exc |-> [cls |-> cls, status_code |-> status, text |-> text]]

NotFound == Raised("ResourceException", PyInt(404), "404 Not Found: no such zone")

\* failures of a fetch other than not-found
FetchFailures ==
    {Raised("ResourceException", PyInt(500), "500 Internal Server Error"),
     Raised("ResourceException", PyInt(500),
            "500 Internal Server Error: backend answered 404"),
     Raised("Exception", None, "Connection refused")}

\* the answers GET /cluster/sdn/zones/{zone} can give
FetchResponses(srv) ==
    (IF srv = None THEN {NotFound} ELSE {Returned(srv)}) \cup FetchFailures

\* the answers a POST / PUT / DELETE / apply can give
CallResponses == {Returned(None), Raised("Exception", None, "Connection refused")}

Call(op, args, resp) == [op |-> op, args |-> args, resp |-> resp]

\* POST /cluster/sdn/zones: the cluster stores the zone's properties as sent
\* (the lock token is a request parameter, not a property)
Stored(payload) == [f \in DOMAIN payload \ {"lock-token"} |-> payload[f]]

\* PUT /cluster/sdn/zones/{zone}: the fields sent replace the stored ones,
\* the others are kept
StoredAfterPut(srv, payload) == Update(srv, Stored(payload))

(***************************************************************************)
(* ProxmoxSDNZoneModule                                                    *)
(***************************************************************************)
\* get_zone: the value returned, or failed when fail_json is called
get_zone(resp) ==
    IF resp.kind = "ok" THEN [failed |-> FALSE, value |-> resp.data]
    ELSE IF resp.exc.cls = "ResourceException"
         THEN IF resp.exc.status_code = PyInt(404) \/ Contains(resp.exc.text, "404")
              THEN [failed |-> FALSE, value |-> None]
              ELSE [failed |-> TRUE, value |-> None]
         ELSE [failed |-> TRUE, value |-> None]

\* build_payload without the "value is None: continue" test
build_payload_dense(p) ==
    LET OptionOf(f) == CHOOSE o \in Options : ZONE_OPTION_MAP[o] = f
    IN [f \in {ZONE_OPTION_MAP[o] : o \in Options} |->
           IF OptionOf(f) \in BOOLEAN_OPTIONS
           THEN ansible_to_proxmox_bool(p[OptionOf(f)])
           ELSE p[OptionOf(f)]]

\* build_payload sending booleans as they are, not as 0/1
build_payload_raw(p) ==
    LET supplied == {o \in Options : p[o] # None}
        OptionOf(f) == CHOOSE o \in supplied : ZONE_OPTION_MAP[o] = f
    IN [f \in {ZONE_OPTION_MAP[o] : o \in supplied} |-> p[OptionOf(f)]]

build_payload(p) ==
    LET supplied == {o \in Options : p[o] # None}
        OptionOf(f) == CHOOSE o \in supplied : ZONE_OPTION_MAP[o] = f
    IN [f \in {ZONE_OPTION_MAP[o] : o \in supplied} |->
           IF OptionOf(f) \in BOOLEAN_OPTIONS
           THEN ansible_to_proxmox_bool(p[OptionOf(f)])
           ELSE p[OptionOf(f)]]

\* build_updates sending the whole desired payload
build_updates_all(existing, desired) == desired

\* build_updates comparing the values themselves, not their str()
build_updates_nostr(existing, desired) ==
    [f \in {g \in DOMAIN desired : Get(existing, g) # desired[g]} |-> desired[f]]

build_updates(existing, desired) ==
    [f \in {g \in DOMAIN desired : Str(Get(existing, g)) # Str(desired[g])} |->
        desired[f]]

\* ensure_present: the zone exists with another type than the one requested
type_conflict_never(existing, zone_type) == FALSE

type_conflict(existing, zone_type) ==
    Truthy(zone_type) /\ Str(Get(existing, "type")) # Str(zone_type)

\* except Exception around post / put / delete: fail_json ends the invocation
call_failed_swallowed(resp) == FALSE

call_failed(resp) == resp.kind = "raise"

Ret(changed, zone_data, msg) ==
    [changed |-> changed, zone_data |-> zone_data, msg |-> msg]

NoRet == Ret(FALSE, None, "")

\* ensure_present up to its first mutating call: build_payload, get_zone and
\* the decision taken on the observed zone.  The record holds the locals and
\* where the invocation goes next.
ensure_present(p, chk, resp) ==
    LET zone_name == p["zone"]
        zone_type == p["type"]
        lock_token == p["lock_token"]
        desired == build_payload(p)
        fetched == get_zone(resp)
        existing == fetched.value
        with_id == Update(desired, [zone |-> zone_name, type |-> zone_type])
        create == IF Truthy(lock_token)
                  THEN Update(with_id, [f \in {"lock-token"} |-> lock_token])
                  ELSE with_id
        upd == build_updates(existing, desired)
        upd_locked == IF Truthy(lock_token)
                      THEN Update(upd, [f \in {"lock-token"} |-> lock_token])
                      ELSE upd
        base == [pc |-> "fail", desired_payload |-> desired,
                 existing_zone |-> existing, create_payload |-> None,
                 updates |-> None, ret |-> NoRet, fail_msg |-> ""]
    IN IF fetched.failed
       THEN [base EXCEPT !.fail_msg = "Failed to retrieve SDN zone"]
       ELSE IF ~TruthyDict(existing)
       THEN IF chk
            THEN [base EXCEPT !.pc = "apply", !.create_payload = create,
                      !.ret = Ret(TRUE, create, "would be created (check mode)")]
            ELSE [base EXCEPT !.pc = "create", !.create_payload = create]
       ELSE IF type_conflict(existing, zone_type)
       THEN [base EXCEPT !.fail_msg = "already exists with type which does not match"]
       ELSE IF ~TruthyDict(upd)
       THEN [base EXCEPT !.pc = "apply", !.updates = upd,
                 !.ret = Ret(FALSE, existing, "already present")]
       ELSE IF chk
       THEN [base EXCEPT !.pc = "apply", !.updates = upd_locked,
                 !.ret = Ret(TRUE, existing, "would be updated (check mode)")]
       ELSE [base EXCEPT !.pc = "update", !.updates = upd_locked]

\* ensure_absent up to the delete call
ensure_absent(p, chk, resp) ==
    LET lock_token == p["lock_token"]
        fetched == get_zone(resp)
        existing == fetched.value
        kwargs == IF Truthy(lock_token)
                  THEN [f \in {"lock-token"} |-> lock_token]
                  ELSE EmptyDict
        base == [pc |-> "fail", existing_zone |-> existing,
                 delete_kwargs |-> None, ret |-> NoRet, fail_msg |-> ""]
    IN IF fetched.failed
       THEN [base EXCEPT !.fail_msg = "Failed to retrieve SDN zone"]
       ELSE IF ~TruthyDict(existing)
       THEN [base EXCEPT !.pc = "apply", !.ret = Ret(FALSE, None, "already absent")]
       ELSE IF chk
       THEN [base EXCEPT !.pc = "apply",
                 !.ret = Ret(TRUE, existing, "would be removed (check mode)")]
       ELSE [base EXCEPT !.pc = "delete", !.delete_kwargs = kwargs]

\* apply_sdn_configuration without the check_mode test
apply_sdn_configuration_nocheck(chk, resp) ==
    IF resp.kind = "raise"
    THEN [called |-> TRUE, failed |-> TRUE, value |-> FALSE]
    ELSE [called |-> TRUE, failed |-> FALSE, value |-> TRUE]

\* apply_sdn_configuration going on after the apply call raised
apply_sdn_configuration_swallow(chk, resp) ==
    IF chk THEN [called |-> FALSE, failed |-> FALSE, value |-> FALSE]
    ELSE [called |-> TRUE, failed |-> FALSE, value |-> TRUE]

\* apply_sdn_configuration(proxmox_api, module, check_mode): whether the
\* apply call is issued, whether fail_json is called, and the value returned
apply_sdn_configuration(chk, resp) ==
    IF chk THEN [called |-> FALSE, failed |-> FALSE, value |-> FALSE]
    ELSE IF resp.kind = "raise"
         THEN [called |-> TRUE, failed |-> TRUE, value |-> FALSE]
         ELSE [called |-> TRUE, failed |-> FALSE, value |-> TRUE]

\* main reporting sdn_configuration_applied whatever its value
exit_result_always(r, app) ==
    LET base == [changed |-> r.changed, msg |-> r.msg]
        with_zone == IF r.zone_data # None
                     THEN base @@ ("sdn_zone" :> r.zone_data)
                     ELSE base
    IN with_zone @@ ("sdn_configuration_applied" :> app)

\* main: the kwargs handed to exit_json
exit_result(r, app) ==
    LET base == [changed |-> r.changed, msg |-> r.msg]
        with_zone == IF r.zone_data # None
                     THEN base @@ ("sdn_zone" :> r.zone_data)
                     ELSE base
    IN IF app THEN with_zone @@ ("sdn_configuration_applied" :> TRUE)
       ELSE with_zone

(***************************************************************************)
(* The inputs: the task's parameters and the zone the cluster holds.       *)
(***************************************************************************)
MaxRuns == 2

MtuValues == {None, PyInt(1400), PyInt(1500)}
ControllerValues == {None, PyStr("frr01"), PyStr("None")}
BoolValues == {None, PyBool(TRUE), PyBool(FALSE)}
LockTokens == {None, PyStr("tok")}

\* state=present tasks name the type (required_if) and any of the options;
\* state=absent tasks name the zone alone, as in the module's examples
PresentParams ==
    {[zone |-> PyStr(ZoneName), type |-> PyStr(t), state |-> PyStr("present"),
      lock_token |-> l, mtu |-> m, controller |-> c, advertise_subnets |-> a] :
        t \in RequestedTypes, l \in LockTokens,
        m \in MtuValues, c \in ControllerValues, a \in BoolValues}

AbsentParams ==
    {[zone |-> PyStr(ZoneName), type |-> None, state |-> PyStr("absent"),
      lock_token |-> l, mtu |-> None, controller |-> None,
      advertise_subnets |-> None] : l \in LockTokens}

ParamSpace == PresentParams \cup AbsentParams

\* the zones the cluster can hold before the first invocation: zone and type
\* always, the other properties or not, numbers as numbers or as text
ServerZones ==
    {Update([zone |-> PyStr(ZoneName), type |-> PyStr(t)], Update(m, Update(c, a))) :
        t \in ZoneTypes,
        m \in {EmptyDict, [f \in {"mtu"} |-> PyStr("1400")],
               [f \in {"mtu"} |-> PyInt(1500)]},
        c \in {EmptyDict, [f \in {"controller"} |-> PyStr("frr01")]},
        a \in {EmptyDict, [f \in {"advertise-subnets"} |-> PyInt(1)]}}

NoPrev == [valid |-> FALSE, check_mode |-> FALSE, changed |-> FALSE,
           existing_zone |-> None]

Init ==
    /\ params \in ParamSpace
    /\ check_mode \in BOOLEAN
    /\ server \in {None} \cup ServerZones
    /\ pc = "main"
    /\ desired_payload = None
    /\ existing_zone = None
    /\ create_payload = None
    /\ updates = None
    /\ delete_kwargs = None
    /\ ret = NoRet
    /\ applied = FALSE
    /\ result = None
    /\ fail_msg = ""
    /\ calls = <<>>
    /\ prev = NoPrev
    /\ runs = 1

(***************************************************************************)
(* The steps of one invocation of main().                                  *)
(***************************************************************************)
\* main -> ensure_present: build_payload, get_zone, and the decision
EnsurePresentFetch ==
    /\ pc = "main"
    /\ params["state"] = PyStr("present")
    /\ \E resp \in FetchResponses(server) :
         LET d == ensure_present(params, check_mode, resp) IN
           /\ calls' = Append(calls, Call("get", EmptyDict, resp))
           /\ pc' = d.pc
           /\ desired_payload' = d.desired_payload
           /\ existing_zone' = d.existing_zone
           /\ create_payload' = d.create_payload
           /\ updates' = d.updates
           /\ ret' = d.ret
           /\ fail_msg' = d.fail_msg
    /\ UNCHANGED <<params, check_mode, server, delete_kwargs, applied, result,
                   prev, runs>>

\* zones.post(**create_payload); the cluster refuses a zone it already holds
EnsurePresentCreate ==
    /\ pc = "create"
    /\ \E resp \in IF server = None THEN CallResponses
                   ELSE {r \in CallResponses : r.kind = "raise"} :
         /\ calls' = Append(calls, Call("post", create_payload, resp))
         /\ server' = IF resp.kind = "ok" THEN Stored(create_payload) ELSE server
         /\ IF call_failed(resp)
            THEN /\ pc' = "fail"
                 /\ fail_msg' = "Failed to create SDN zone"
            ELSE /\ pc' = "created"
                 /\ fail_msg' = fail_msg
    /\ UNCHANGED <<params, check_mode, desired_payload, existing_zone,
                   create_payload, updates, delete_kwargs, ret, applied, result,
                   prev, runs>>

\* new_zone = get_zone(zone_name) after a create or an update
Refetch(at, msg) ==
    /\ pc = at
    /\ \E resp \in FetchResponses(server) :
         LET fetched == get_zone(resp) IN
           /\ calls' = Append(calls, Call("get", EmptyDict, resp))
           /\ IF fetched.failed
              THEN /\ pc' = "fail"
                   /\ fail_msg' = "Failed to retrieve SDN zone"
                   /\ ret' = ret
              ELSE /\ pc' = "apply"
                   /\ fail_msg' = fail_msg
                   /\ ret' = Ret(TRUE, fetched.value, msg)
    /\ UNCHANGED <<params, check_mode, server, desired_payload, existing_zone,
                   create_payload, updates, delete_kwargs, applied, result,
                   prev, runs>>

EnsurePresentCreated == Refetch("created", "created")

\* zones(zone_name).put(**updates)
EnsurePresentUpdate ==
    /\ pc = "update"
    /\ \E resp \in CallResponses :
         /\ calls' = Append(calls, Call("put", updates, resp))
         /\ server' = IF resp.kind = "ok" THEN StoredAfterPut(server, updates)
                      ELSE server
         /\ IF call_failed(resp)
            THEN /\ pc' = "fail"
                 /\ fail_msg' = "Failed to update SDN zone"
            ELSE /\ pc' = "updated"
                 /\ fail_msg' = fail_msg
    /\ UNCHANGED <<params, check_mode, desired_payload, existing_zone,
                   create_payload, updates, delete_kwargs, ret, applied, result,
                   prev, runs>>

EnsurePresentUpdated == Refetch("updated", "updated")

\* main -> ensure_absent: get_zone and the decision
EnsureAbsentFetch ==
    /\ pc = "main"
    /\ params["state"] # PyStr("present")
    /\ \E resp \in FetchResponses(server) :
         LET d == ensure_absent(params, check_mode, resp) IN
           /\ calls' = Append(calls, Call("get", EmptyDict, resp))
           /\ pc' = d.pc
           /\ existing_zone' = d.existing_zone
           /\ delete_kwargs' = d.delete_kwargs
           /\ ret' = d.ret
           /\ fail_msg' = d.fail_msg
    /\ UNCHANGED <<params, check_mode, server, desired_payload, create_payload,
                   updates, applied, result, prev, runs>>

\* zones(zone_name).delete(**delete_kwargs)
EnsureAbsentDelete ==
    /\ pc = "delete"
    /\ \E resp \in CallResponses :
         /\ calls' = Append(calls, Call("delete", delete_kwargs, resp))
         /\ server' = IF resp.kind = "ok" THEN None ELSE server
         /\ IF call_failed(resp)
            THEN /\ pc' = "fail"
                 /\ fail_msg' = "Failed to remove SDN zone"
                 /\ ret' = ret
            ELSE /\ pc' = "apply"
                 /\ fail_msg' = fail_msg
                 /\ ret' = Ret(TRUE, None, "removed")
    /\ UNCHANGED <<params, check_mode, desired_payload, existing_zone,
                   create_payload, updates, delete_kwargs, applied, result,
                   prev, runs>>

\* main after the reconciler returned: apply when changed, then exit_json
MainApplyExit ==
    /\ pc = "apply"
    /\ IF ret.changed
       THEN \E resp \in CallResponses :
              LET a == apply_sdn_configuration(check_mode, resp) IN
                /\ calls' = IF a.called
                            THEN Append(calls, Call("apply", [apply |-> PyInt(1)], resp))
                            ELSE calls
                /\ IF a.failed
                   THEN /\ pc' = "fail"
                        /\ fail_msg' = "Failed to apply SDN configuration"
                        /\ UNCHANGED <<applied, result>>
                   ELSE /\ pc' = "exit"
                        /\ applied' = a.value
                        /\ result' = exit_result(ret, a.value)
                        /\ fail_msg' = fail_msg
       ELSE /\ pc' = "exit"
            /\ result' = exit_result(ret, FALSE)
            /\ UNCHANGED <<applied, fail_msg, calls>>
    /\ UNCHANGED <<params, check_mode, server, desired_payload, existing_zone,
                   create_payload, updates, delete_kwargs, ret, prev, runs>>

\* the task has exited and is run again, with or without --check; prev keeps
\* what the finished run saw and reported
Reinvoke ==
    /\ pc = "exit"
    /\ runs < MaxRuns
    /\ runs' = runs + 1
    /\ prev' = [valid |-> TRUE, check_mode |-> check_mode,
                changed |-> result["changed"], existing_zone |-> existing_zone]
    /\ check_mode' \in BOOLEAN
    /\ pc' = "main"
    /\ desired_payload' = None
    /\ existing_zone' = None
    /\ create_payload' = None
    /\ updates' = None
    /\ delete_kwargs' = None
    /\ ret' = NoRet
    /\ applied' = FALSE
    /\ result' = None
    /\ fail_msg' = ""
    /\ calls' = <<>>
    /\ UNCHANGED <<params, server>>

Invocation ==
    \/ EnsurePresentFetch
    \/ EnsurePresentCreate
    \/ EnsurePresentCreated
    \/ EnsurePresentUpdate
    \/ EnsurePresentUpdated
    \/ EnsureAbsentFetch
    \/ EnsureAbsentDelete
    \/ MainApplyExit

\* one invocation
Next == Invocation

Spec == Init /\ [][Next]_vars

\* the task run repeatedly against the same cluster
NextRerun == Invocation \/ Reinvoke

SpecRerun == Init /\ [][NextRerun]_vars

(***************************************************************************)
(* Properties                                                              *)
(***************************************************************************)
Mutating == {"post", "put", "delete"}

Issued(ops) == {i \in DOMAIN calls : calls[i].op \in ops}

\* every call of this invocation was answered without a transport failure
\* (a 404 for a zone that does not exist is a normal answer)
NoTransportFailure ==
    \A i \in DOMAIN calls : calls[i].resp.kind = "ok" \/ calls[i].resp = NotFound

IsPresentRun == params["state"] = PyStr("present")

\* the text the desired value of option o is compared and sent as
DesiredText(o) ==
    IF o \in BOOLEAN_OPTIONS
    THEN (IF params[o] = PyBool(TRUE) THEN "1" ELSE "0")
    ELSE Str(params[o])

\* the API fields of the supplied options whose text differs from the observed zone
Differing ==
    {ZONE_OPTION_MAP[o] : o \in {x \in Options :
        /\ params[x] # None
        /\ DesiredText(x) # Str(Get(existing_zone, ZONE_OPTION_MAP[x]))}}

\* C1: a second ensure_present with the same parameters, after a first one
\* that ran outside check mode and exited, against a cluster that answers
\* every call, issues no create, update or delete call, does not fail and
\* reports changed = false.
C1_Idempotence ==
    (/\ IsPresentRun
     /\ prev.valid /\ ~prev.check_mode /\ ~check_mode
     /\ NoTransportFailure)
    => /\ Issued(Mutating) = {}
       /\ pc \in {"main", "apply", "exit"}
       /\ ~ret.changed
       /\ pc = "exit" => result["changed"] = FALSE

C1_Witness ==
    /\ IsPresentRun
    /\ prev.valid /\ ~prev.check_mode /\ prev.changed /\ ~check_mode
    /\ NoTransportFailure
    /\ pc = "exit"
    /\ result["changed"] = FALSE

\* C2: on an existing zone of the requested type, the attribute fields of the
\* update call are exactly the supplied fields whose text differs from the
\* observed one, with the desired values; when none differs the update set is
\* empty, no mutating call is made, changed is false and the observed zone is
\* returned as it was fetched.
C2_PartialUpdate ==
    (/\ IsPresentRun
     /\ TruthyDict(existing_zone)
     /\ Str(Get(existing_zone, "type")) = Str(params["type"]))
    => /\ \A i \in Issued({"put"}) :
            /\ DOMAIN calls[i].args \ {"lock-token"} = Differing
            /\ \A o \in Options :
                 ZONE_OPTION_MAP[o] \in Differing =>
                     Str(calls[i].args[ZONE_OPTION_MAP[o]]) = DesiredText(o)
       /\ Issued({"post", "delete"}) = {}
       /\ (pc \in {"updated", "update"}) => Differing # {}
       /\ Differing = {} =>
            /\ updates = EmptyDict
            /\ Issued(Mutating) = {}
            /\ pc \in {"apply", "exit"}
            /\ ret = Ret(FALSE, existing_zone, "already present")
            /\ existing_zone = server

\* an update that sends one differing field and leaves a matching one out
C2_Witness ==
    /\ IsPresentRun
    /\ pc = "exit"
    /\ \E i \in Issued({"put"}) :
         /\ calls[i].args = [f \in {"mtu"} |-> PyInt(1500)]
         /\ "controller" \in DOMAIN desired_payload
         /\ Get(existing_zone, "mtu") = PyStr("1400")
         /\ Get(existing_zone, "controller") = PyStr("frr01")

\* C3: an option whose parameter is None is a field of no create payload and
\* of no update payload, sent or only built, whatever the observed zone
\* holds; the create payload holds zone, type, the supplied options and the
\* lock token when one is supplied, and nothing else.
C3_Sparse ==
    LET omitted == {ZONE_OPTION_MAP[o] : o \in {x \in Options : params[x] = None}}
        supplied == {ZONE_OPTION_MAP[o] : o \in {x \in Options : params[x] # None}}
        lock == IF params["lock_token"] # None THEN {"lock-token"} ELSE {}
    IN /\ \A i \in Issued({"post", "put"}) : DOMAIN calls[i].args \cap omitted = {}
       /\ create_payload # None =>
            DOMAIN create_payload = {"zone", "type"} \cup supplied \cup lock
       /\ updates # None => DOMAIN updates \subseteq supplied \cup lock
       /\ \A i \in Issued({"post"}) : calls[i].args = create_payload
       /\ \A i \in Issued({"put"}) : calls[i].args = updates

\* an update is sent while the observed zone holds a field the task omits
C3_Witness ==
    /\ Issued({"put"}) # {}
    /\ \E o \in Options :
         params[o] = None /\ ZONE_OPTION_MAP[o] \in DOMAIN existing_zone

\* C4: in check mode no create, update, delete or apply call is issued, for
\* state=present and state=absent alike; and a check-mode run and a real run
\* of the same task that observe the same zone report the same changed flag.
C4_DryRunPurity ==
    /\ check_mode => Issued(Mutating \cup {"apply"}) = {}
    /\ (/\ prev.valid
        /\ prev.check_mode # check_mode
        /\ pc = "exit"
        /\ prev.existing_zone = existing_zone)
       => result["changed"] = prev.changed

\* a real run that changes the zone, after a check-mode run that saw the same
\* zone and predicted the change
C4_Witness ==
    /\ prev.valid /\ prev.check_mode /\ ~check_mode
    /\ pc = "exit"
    /\ prev.existing_zone = existing_zone
    /\ prev.changed
    /\ result["changed"]
    /\ Issued(Mutating) # {}

\* C5: when ensure_present finds a zone whose type differs, as text, from the
\* requested type, the invocation fails, in check mode too, and has issued no
\* create, update, delete or apply call.
C5_TypeImmutable ==
    (/\ IsPresentRun
     /\ TruthyDict(existing_zone)
     /\ Truthy(params["type"])
     /\ Str(Get(existing_zone, "type")) # Str(params["type"]))
    => /\ pc = "fail"
       /\ Issued(Mutating \cup {"apply"}) = {}
       /\ result = None
       /\ server = existing_zone

C5_Witness ==
    /\ IsPresentRun
    /\ check_mode
    /\ TruthyDict(existing_zone)
    /\ Get(existing_zone, "type") = PyStr("vxlan")
    /\ params["type"] = PyStr("evpn")
    /\ pc = "fail"

\* C6: main issues the apply call at most once, and only when the reconciler
\* returned changed = true outside check mode; an invocation that exits has
\* issued it exactly in that case, and reports sdn_configuration_applied =
\* true exactly in that case, without the key otherwise.
C6_CommitGating ==
    /\ Cardinality(Issued({"apply"})) <= 1
    /\ Issued({"apply"}) # {} => ret.changed /\ ~check_mode
    /\ pc = "exit" =>
         /\ Issued({"apply"}) # {} <=> (ret.changed /\ ~check_mode)
         /\ "sdn_configuration_applied" \in DOMAIN result
                <=> (ret.changed /\ ~check_mode)
         /\ "sdn_configuration_applied" \in DOMAIN result
                => result["sdn_configuration_applied"] = TRUE
         /\ result["changed"] = ret.changed

C6_Witness ==
    /\ pc = "exit"
    /\ "sdn_configuration_applied" \in DOMAIN result
    /\ Cardinality(Issued({"apply"})) = 1

\* C7: apply_sdn_configuration in check mode issues no call and returns
\* false; outside check mode it issues the apply call (apply=1) once and
\* returns true when the call succeeds; when the call raises the invocation
\* fails and no result is reported.
C7_Committer ==
    LET last == calls[Len(calls)] IN
    /\ (pc = "exit" /\ ret.changed /\ check_mode)
         => Issued({"apply"}) = {} /\ applied = FALSE
    /\ (pc = "exit" /\ ret.changed /\ ~check_mode)
         => /\ Cardinality(Issued({"apply"})) = 1
            /\ last = Call("apply", [apply |-> PyInt(1)], Returned(None))
            /\ applied = TRUE
    /\ \A i \in Issued({"apply"}) :
         calls[i].resp.kind = "raise"
            => /\ i = Len(calls)
               /\ pc = "fail"
               /\ applied = FALSE
               /\ result = None

\* the apply call raised
C7_Witness ==
    /\ pc = "fail"
    /\ Len(calls) > 0
    /\ calls[Len(calls)].op = "apply"
    /\ calls[Len(calls)].resp.kind = "raise"

\* C8 (as claimed): ensure_absent returns changed = true exactly when it found
\* the zone, and its result state is always None, so that a state=absent
\* invocation never reports sdn_zone.
C8_AbsentResultAlwaysNone ==
    (~IsPresentRun /\ pc \in {"apply", "exit"})
    => /\ ret.changed = TruthyDict(existing_zone)
       /\ ret.zone_data = None
       /\ pc = "exit" => "sdn_zone" \notin DOMAIN result

\* C9 (as claimed): a fetch answered by any failure other than a 404 response
\* fails the invocation; it never yields an absent zone.
C9_OnlyNotFoundIsAbsent ==
    \A i \in Issued({"get"}) :
        (calls[i].resp.kind = "raise" /\ calls[i].resp.exc.status_code # PyInt(404))
        => pc = "fail" /\ i = Len(calls)

\* C10: a create, update or delete call that raised is the last call of the
\* invocation, which has failed and reports no result; and an apply call is
\* only issued after a mutating call of the invocation succeeded.
C10_NoRecovery ==
    /\ \A i \in Issued(Mutating) :
         calls[i].resp.kind = "raise"
            => i = Len(calls) /\ pc = "fail" /\ result = None
    /\ \A j \in Issued({"apply"}) :
         \E i \in Issued(Mutating) : i < j /\ calls[i].resp.kind = "ok"

\* an update call raised
C10_Witness ==
    /\ pc = "fail"
    /\ Len(calls) = 2
    /\ calls[2].op = "put"
    /\ calls[2].resp.kind = "raise"

\* C11: in check mode, ensure_present on a zone observed absent returns
\* changed = true and, as result state, the create payload it built: zone,
\* type and the supplied options under their API names, booleans as 0/1 (and
\* the lock token when one is supplied); on an existing zone that needs an
\* update it returns changed = true and the zone as it was fetched.
C11_PredictedState ==
    (IsPresentRun /\ check_mode /\ pc \in {"apply", "exit"})
    => LET supplied == {o \in Options : params[o] # None}
           fields == {"zone", "type"} \cup {ZONE_OPTION_MAP[o] : o \in supplied}
       IN /\ ~TruthyDict(existing_zone) =>
               /\ ret.changed
               /\ ret.zone_data = create_payload
               /\ DOMAIN ret.zone_data \ {"lock-token"} = fields
               /\ ret.zone_data["zone"] = params["zone"]
               /\ ret.zone_data["type"] = params["type"]
               /\ \A o \in supplied :
                    /\ Str(ret.zone_data[ZONE_OPTION_MAP[o]]) = DesiredText(o)
                    /\ ret.zone_data[ZONE_OPTION_MAP[o]].k # "bool"
               /\ pc = "exit" => result["sdn_zone"] = ret.zone_data
          /\ (TruthyDict(existing_zone) /\ Differing # {}) =>
               /\ ret.changed
               /\ ret.zone_data = existing_zone
               /\ existing_zone = server
               /\ pc = "exit" => result["sdn_zone"] = existing_zone

\* a check-mode run that predicts a create with a boolean option supplied
C11_Witness ==
    /\ IsPresentRun /\ check_mode /\ pc = "exit"
    /\ ~TruthyDict(existing_zone)
    /\ params["advertise_subnets"] = PyBool(TRUE)
    /\ result["changed"]
    /\ result["sdn_zone"]["advertise-subnets"] = PyInt(1)

\* C12 (as claimed): on an existing zone of the requested type, every supplied
\* option whose field is missing from the observed zone is put in the update
\* set, so that ensure_present reports a change and never "already present".
C12_MissingFieldIsUpdated ==
    (/\ IsPresentRun
     /\ TruthyDict(existing_zone)
     /\ Str(Get(existing_zone, "type")) = Str(params["type"])
     /\ \E o \in Options :
          params[o] # None /\ ZONE_OPTION_MAP[o] \notin DOMAIN existing_zone)
    => /\ \A o \in Options :
            (params[o] # None /\ ZONE_OPTION_MAP[o] \notin DOMAIN existing_zone)
                => ZONE_OPTION_MAP[o] \in DOMAIN updates
       /\ ret.msg # "already present"
       /\ pc \in {"apply", "exit"} => ret.changed

\* C13 (as claimed): the lock token is an argument of the create, update and
\* delete calls only; the result state returned by ensure_present or
\* ensure_absent, and reported as sdn_zone, holds neither a lock-token field
\* nor the token's value.
C13_LockTokenConfined ==
    LET leaks(d) ==
            /\ d # None
            /\ \/ "lock-token" \in DOMAIN d
               \/ \E f \in DOMAIN d :
                    params["lock_token"] # None /\ d[f] = params["lock_token"]
    IN /\ \A i \in Issued({"get", "apply"}) : "lock-token" \notin DOMAIN calls[i].args
       /\ ~leaks(ret.zone_data)
       /\ pc = "exit" => ~leaks(Get(result, "sdn_zone"))

====
